---- MODULE Spec2Model ----
(***************************************************************************)
(* goproxy-s3: a Go module proxy that serves modules from an S3 bucket     *)
(* (ProxyHandler, the read path) and an admin endpoint that resolves a     *)
(* module with `go mod download` and uploads the module cache to the       *)
(* bucket (S3Copier, the control path).                                    *)
(*                                                                         *)
(* Strings are sequences of one-character strings, so that escaping,       *)
(* splitting and extension handling are computed and not assumed.          *)
(***************************************************************************)
EXTENDS Integers, Sequences, FiniteSets, TLC

\* ------------------------------------------------------------------------
\* Characters and the string functions of the Go standard library in use
\* ------------------------------------------------------------------------

LowerSeq == <<"a","b","c","d","e","f","g","h","i","j","k","l","m",
              "n","o","p","q","r","s","t","u","v","w","x","y","z">>
UpperSeq == <<"A","B","C","D","E","F","G","H","I","J","K","L","M",
              "N","O","P","Q","R","S","T","U","V","W","X","Y","Z">>
Lower  == {LowerSeq[i] : i \in DOMAIN LowerSeq}
Upper  == {UpperSeq[i] : i \in DOMAIN UpperSeq}
Digits == {"0","1","2","3","4","5","6","7","8","9"}

ToUpper(c) == UpperSeq[CHOOSE i \in DOMAIN LowerSeq : LowerSeq[i] = c]
ToLower(c) == LowerSeq[CHOOSE i \in DOMAIN UpperSeq : UpperSeq[i] = c]

\* s[i:j] of Go, with 0-based offsets
Slice(s, i, j) == SubSeq(s, i + 1, j)

HasPrefix(s, p) == Len(s) >= Len(p) /\ SubSeq(s, 1, Len(p)) = p
HasSuffix(s, p) == Len(s) >= Len(p) /\ SubSeq(s, Len(s) - Len(p) + 1, Len(s)) = p

OccursAt(s, sub, i) == i + Len(sub) <= Len(s) /\ Slice(s, i, i + Len(sub)) = sub

\* strings.Index: the offset of the first occurrence, -1 when there is none
Index(s, sub) ==
    LET hits == {i \in 0..Len(s) : OccursAt(s, sub, i)}
    IN  IF hits = {} THEN -1
        ELSE CHOOSE i \in hits : \A j \in hits : i <= j

Contains(s, sub) == Index(s, sub) >= 0

TrimPrefix(s, p) == IF HasPrefix(s, p) THEN Slice(s, Len(p), Len(s)) ELSE s
TrimSuffix(s, p) == IF HasSuffix(s, p) THEN Slice(s, 0, Len(s) - Len(p)) ELSE s

\* path.Ext / filepath.Ext: the suffix from the last dot of the last
\* slash-separated element, empty when that element has no dot
Ext(s) ==
    LET dots == {i \in 1..Len(s) :
                    /\ s[i] = "."
                    /\ \A j \in i..Len(s) : s[j] # "/"}
    IN  IF dots = {} THEN <<>>
        ELSE LET d == CHOOSE i \in dots : \A j \in dots : i >= j
             IN  SubSeq(s, d, Len(s))

\* strings.Split on a one-character separator
RECURSIVE Split(_, _)
Split(s, c) ==
    LET i == Index(s, <<c>>)
    IN  IF i < 0 THEN <<s>>
        ELSE <<Slice(s, 0, i)>> \o Split(Slice(s, i + 1, Len(s)), c)

\* the literals of the program
sSlash     == <<"/">>
sAt        == <<"@">>
sSumdbSl   == <<"s","u","m","d","b","/">>
sSumdb     == <<"s","u","m","d","b">>
sSepV      == <<"/","@","v","/">>
sLatest    == <<"l","a","t","e","s","t">>
sList      == <<"l","i","s","t">>
sListProxy == <<"l","i","s","t","p","r","o","x","y">>
sInfo      == <<".","i","n","f","o">>
sMod       == <<".","m","o","d">>
sZip       == <<".","z","i","p">>
sZipHash   == <<".","z","i","p","h","a","s","h">>
sModules   == <<"m","o","d","u","l","e","s">>

\* ------------------------------------------------------------------------
\* golang.org/x/mod/module and golang.org/x/mod/semver, as the handlers
\* call them
\* ------------------------------------------------------------------------

Failed == [ok |-> FALSE, s |-> <<>>]
Okay(s) == [ok |-> TRUE, s |-> s]

\* module.unescapeString: "!x" stands for "X"; an upper-case letter, a "!"
\* not followed by a lower-case letter, or a trailing "!" is invalid
RECURSIVE unescapeFrom(_, _, _, _)
unescapeFrom(s, i, bang, buf) ==
    IF i > Len(s) THEN (IF bang THEN Failed ELSE Okay(buf))
    ELSE IF bang
         THEN IF s[i] \in Lower
              THEN unescapeFrom(s, i + 1, FALSE, Append(buf, ToUpper(s[i])))
              ELSE Failed
    ELSE IF s[i] = "!" THEN unescapeFrom(s, i + 1, TRUE, buf)
    ELSE IF s[i] \in Upper THEN Failed
    ELSE unescapeFrom(s, i + 1, FALSE, Append(buf, s[i]))

unescapeString(s) == unescapeFrom(s, 1, FALSE, <<>>)

\* module.escapeString: every upper-case letter X becomes "!x"
RECURSIVE escapeString(_)
escapeString(s) ==
    IF s = <<>> THEN <<>>
    ELSE (IF s[1] \in Upper THEN <<"!", ToLower(s[1])>> ELSE <<s[1]>>)
             \o escapeString(Tail(s))

AllDots(e) == \A i \in 1..Len(e) : e[i] = "."

\* module.modPathOK and module.fileNameOK on the ASCII characters
modPathOK(c)  == c \in Lower \cup Upper \cup Digits \cup {"-", ".", "_", "~"}
fileNameOK(c) == c \in Lower \cup Upper \cup Digits \cup
                       {"!", "#", "$", "%", "&", "(", ")", "+", ",", "-", ".",
                        "=", "@", "[", "]", "^", "_", "{", "}", "~", " "}
firstPathOK(c) == c \in Lower \cup Digits \cup {"-", "."}

\* module.checkElem for an element of a module path
checkElemModule(e) ==
    /\ e # <<>>
    /\ ~AllDots(e)
    /\ e[1] # "."
    /\ e[Len(e)] # "."
    /\ \A i \in 1..Len(e) : modPathOK(e[i])

\* module.checkElem for a file name (a version)
checkElemFile(e) ==
    /\ e # <<>>
    /\ ~AllDots(e)
    /\ e[Len(e)] # "."
    /\ \A i \in 1..Len(e) : fileNameOK(e[i])

\* module.CheckPath: a well-formed module path
CheckPath(p) ==
    /\ p # <<>>
    /\ p[1] # "-"
    /\ LET elems == Split(p, "/")
       IN  /\ \A k \in 1..Len(elems) : checkElemModule(elems[k])
           /\ Contains(elems[1], <<".">>)
           /\ \A i \in 1..Len(elems[1]) : firstPathOK(elems[1][i])

\* module.UnescapePath
UnescapePath(escaped) ==
    LET u == unescapeString(escaped)
    IN  IF u.ok /\ CheckPath(u.s) THEN u ELSE Failed

\* module.EscapePath
EscapePath(p) == IF CheckPath(p) THEN Okay(escapeString(p)) ELSE Failed

\* module.UnescapeVersion
UnescapeVersion(escaped) ==
    LET u == unescapeString(escaped)
    IN  IF u.ok /\ checkElemFile(u.s) THEN u ELSE Failed

\* module.EscapeVersion
EscapeVersion(v) ==
    IF checkElemFile(v) /\ ~Contains(v, <<"!">>) THEN Okay(escapeString(v)) ELSE Failed

\* semver.parseInt: the length of the leading decimal number, 0 when there
\* is none or it has a leading zero
IntLen(s) ==
    LET n == CHOOSE k \in 0..Len(s) :
                 /\ \A i \in 1..k : s[i] \in Digits
                 /\ (k < Len(s) => s[k + 1] \notin Digits)
    IN  IF n > 1 /\ s[1] = "0" THEN 0 ELSE n

isIdentChar(c) == c \in Lower \cup Upper \cup Digits \cup {"-"}
isBadNum(s) == (\A i \in 1..Len(s) : s[i] \in Digits) /\ Len(s) > 1 /\ s[1] = "0"

\* semver.parsePrerelease on the text after the "-"
prereleaseOK(s) ==
    /\ \A i \in 1..Len(s) : isIdentChar(s[i]) \/ s[i] = "."
    /\ LET ids == Split(s, ".")
       IN  \A k \in 1..Len(ids) : ids[k] # <<>> /\ ~isBadNum(ids[k])

\* semver.parseBuild on the text after the "+"
buildOK(s) ==
    /\ \A i \in 1..Len(s) : isIdentChar(s[i]) \/ s[i] = "."
    /\ LET ids == Split(s, ".")
       IN  \A k \in 1..Len(ids) : ids[k] # <<>>

\* semver.parse after major.minor.patch: an optional prerelease, then an
\* optional build, and nothing else; the result is the length of the build
\* (with its "+"), -1 when the text is invalid
TailBuildLen(s) ==
    LET plus == Index(s, <<"+">>)
        pre  == IF plus < 0 THEN s ELSE Slice(s, 0, plus)
        bld  == IF plus < 0 THEN <<>> ELSE Slice(s, plus, Len(s))
        preOK == pre = <<>> \/ (pre[1] = "-" /\ prereleaseOK(Tail(pre)))
        bldOK == bld = <<>> \/ buildOK(Tail(bld))
    IN  IF preOK /\ bldOK THEN Len(bld) ELSE -1

\* semver.Canonical: the empty string for an invalid version, the short
\* forms vN and vN.M completed with zeros, the build metadata dropped
Canonical(v) ==
    IF v = <<>> \/ v[1] # "v" THEN <<>>
    ELSE LET a  == Tail(v)
             n1 == IntLen(a)
             b  == Slice(a, n1, Len(a))
         IN  IF n1 = 0 THEN <<>>
             ELSE IF b = <<>> THEN v \o <<".", "0", ".", "0">>
             ELSE IF b[1] # "." THEN <<>>
             ELSE LET n2 == IntLen(Tail(b))
                      c  == Slice(b, n2 + 1, Len(b))
                  IN  IF n2 = 0 THEN <<>>
                      ELSE IF c = <<>> THEN v \o <<".", "0">>
                      ELSE IF c[1] # "." THEN <<>>
                      ELSE LET n3 == IntLen(Tail(c))
                               d  == Slice(c, n3 + 1, Len(c))
                               bl == TailBuildLen(d)
                           IN  IF n3 = 0 \/ bl < 0 THEN <<>>
                               ELSE Slice(v, 0, Len(v) - bl)

sIncompatible == <<"+","i","n","c","o","m","p","a","t","i","b","l","e">>

\* module.CanonicalVersion: semver.Canonical, keeping a "+incompatible" build
CanonicalVersion(v) ==
    LET cv == Canonical(v)
    IN  IF cv # <<>> /\ HasSuffix(v, sIncompatible)
             /\ Index(v, <<"+">>) = Len(v) - Len(sIncompatible)
        THEN cv \o sIncompatible
        ELSE cv

\* ------------------------------------------------------------------------
\* State
\* ------------------------------------------------------------------------

VARIABLES
    store,      \* the bucket: a function from the keys present to their bytes
    resp,       \* the read path: the last request served and its response
    cp,         \* the control path: per admin request in flight, its state
    populated,  \* the coordinates a non-forced Copy has populated successfully
    probe       \* a directory entry handed to shouldUpload, and its answer

vars == <<store, resp, cp, populated, probe>>

StatusOK                  == 200
StatusBadRequest          == 400
StatusNotFound            == 404
StatusMethodNotAllowed    == 405
StatusInternalServerError == 500

contentTypeJSON   == "application/json"
contentTypeText   == "text/plain; charset=UTF-8"
contentTypeBinary == "application/octet-stream"
\* what http.Error sets
contentTypeError  == "text/plain; charset=utf-8"

errCodeNotFound == "NotFound"

\* ------------------------------------------------------------------------
\* The bucket (S3 through aws-sdk-go)
\* ------------------------------------------------------------------------

\* The error codes a GetObject can come back with. For a key that is absent
\* S3 answers a GET with an XML body whose code is NoSuchKey; a store that
\* sends no body makes the SDK derive NotFound from the status text.
\* InternalError stands for every other failure (permissions, network).
GetObjectOutcomes(key) ==
    IF key \in DOMAIN store
    THEN {"ok", "InternalError"}
    ELSE {"NoSuchKey", errCodeNotFound, "InternalError"}

\* A HeadObject has no response body, so the SDK names an absent key NotFound.
HeadObjectOutcomes(key) ==
    IF key \in DOMAIN store
    THEN {"ok", "InternalError"}
    ELSE {errCodeNotFound, "InternalError"}

UploadOutcomes == {"ok", "InternalError"}

\* S3Downloader.Download: the key it gets
DownloadKey(modulePath, name) ==
    sModules \o sSlash \o modulePath \o sSepV \o name

\* ------------------------------------------------------------------------
\* The read path: ProxyHandler
\* ------------------------------------------------------------------------

NoResp == [path |-> <<>>, status |-> 0, ctype |-> "", body |-> <<>>,
           gets |-> <<>>, opened |-> FALSE, closed |-> FALSE,
           drained |-> FALSE, fault |-> FALSE, pkg |-> <<>>, what |-> <<>>]

\* a response written without touching the store
Reply(path, status, ctype, body) ==
    [NoResp EXCEPT !.path = path, !.status = status, !.ctype = ctype,
                   !.body = <<body>>]

\* ProxyHandler.handleError: NotFound from the SDK (or a local not-exist
\* error) is 404, every other error is 500
handleErrorStatus(err) ==
    IF err.kind = "aws" /\ err.code = errCodeNotFound THEN StatusNotFound
    ELSE IF err.kind = "notexist" THEN StatusNotFound
    ELSE StatusInternalServerError

handleError(path, err, gets) ==
    [NoResp EXCEPT !.path = path, !.status = handleErrorStatus(err),
                   !.ctype = contentTypeError, !.body = <<err.code>>,
                   !.gets = gets, !.fault = (err.code = "InternalError")]

\* the tail of ServeHTTP once the operation has a key to download: the
\* GetObject, then either handleError or the copy of the body to the client
Serve(path, ctype, key, got, copy) ==
    IF got # "ok"
    THEN handleError(path, [kind |-> "aws", code |-> got], <<key>>)
    ELSE IF copy = "ok"
    THEN [path |-> path, status |-> StatusOK, ctype |-> ctype,
          body |-> store[key], gets |-> <<key>>, opened |-> TRUE,
          closed |-> TRUE, drained |-> TRUE, fault |-> FALSE,
          pkg |-> <<>>, what |-> <<>>]
    \* the write to the client failed part-way: the header is out, the
    \* deferred Close still runs, the rest of the stream is not read
    ELSE [path |-> path, status |-> StatusOK, ctype |-> ctype,
          body |-> <<"partial">>, gets |-> <<key>>, opened |-> TRUE,
          closed |-> TRUE, drained |-> FALSE, fault |-> TRUE,
          pkg |-> <<>>, what |-> <<>>]

\* ProxyHandler.List: the key of the version list
ListKey(modPath) == DownloadKey(EscapePath(modPath).s, sListProxy)

\* ProxyHandler.Info, GoMod, Zip: the key of a version's artifact
ArtifactKey(modPath, version, ext) == DownloadKey(modPath, version \o ext)

\* strings.LastIndex: the offset of the last occurrence of sub in s, or -1
LastIndex(s, sub) ==
    LET hits == {k \in 0..(Len(s) - Len(sub)) : OccursAt(s, sub, k)}
    IN  IF hits = {} THEN -1 ELSE CHOOSE k \in hits : \A j \in hits : j <= k

\* mutant: the path is split at the last separator
SplitAt_Last(path) == LastIndex(path, sSepV)

\* the offset at which ServeHTTP splits the package path from the rest
SplitAt(path) == Index(path, sSepV)

\* mutant: the test misses a path that starts with /sumdb/
SumdbDisabled_NotFirst(path) == Index(path, sSumdbSl) > 1

\* ServeHTTP's "Disable sumdb" test
SumdbDisabled(path) == Index(path, sSumdbSl) > 0

\* mutant: the version latest is let through
VersionDisallowed_Never(version) == FALSE

\* ServeHTTP's test for the version latest
VersionDisallowed(version) == version = sLatest

\* mutant: the test is made for .info as well
NotCanonical_AnyExt(ext, version) == version # CanonicalVersion(version)

\* ServeHTTP's test for a version that has to be canonical and is not
NotCanonical(ext, version) == ext # sInfo /\ version # CanonicalVersion(version)

\* what ServeHTTP decides before it reaches the store:
\* [op |-> "reply", ...] or [op |-> "get", key, ctype]
Dispatch(path) ==
    LET i == SplitAt(path) IN
    IF SumdbDisabled(path)
    THEN [op |-> "reply", status |-> StatusNotFound, ctype |-> "", msg |-> ""]
    ELSE IF i < 0
    THEN [op |-> "reply", status |-> StatusBadRequest,
          ctype |-> contentTypeError, msg |-> "no path"]
    ELSE LET mp   == UnescapePath(TrimPrefix(Slice(path, 0, i), sSlash))
             what == Slice(path, i + Len(sSepV), Len(path))
             ext  == Ext(what)
             ver  == UnescapeVersion(TrimSuffix(what, ext))
    IN  IF ~mp.ok
        THEN [op |-> "error", msg |-> "invalid escaped module path"]
        ELSE IF what = sLatest
        THEN [op |-> "error", msg |-> "latest is not supported"]
        ELSE IF what = sList
        THEN IF ~EscapePath(mp.s).ok
             THEN [op |-> "error", msg |-> "malformed module path"]
             ELSE [op |-> "get", ctype |-> contentTypeText, key |-> ListKey(mp.s)]
        ELSE IF ~ver.ok
        THEN [op |-> "reply", status |-> StatusBadRequest,
              ctype |-> contentTypeError, msg |-> "invalid escaped version"]
        ELSE IF VersionDisallowed(ver.s)
        THEN [op |-> "reply", status |-> StatusBadRequest,
              ctype |-> contentTypeError, msg |-> "version latest is disallowed"]
        ELSE IF NotCanonical(ext, ver.s)
        THEN [op |-> "reply", status |-> StatusBadRequest,
              ctype |-> contentTypeError, msg |-> "version is not in canonical form"]
        ELSE IF ext = sInfo
        THEN [op |-> "get", ctype |-> contentTypeJSON,
              key |-> ArtifactKey(mp.s, ver.s, sInfo)]
        ELSE IF ext = sMod
        THEN [op |-> "get", ctype |-> contentTypeText,
              key |-> ArtifactKey(mp.s, ver.s, sMod)]
        ELSE IF ext = sZip
        THEN [op |-> "get", ctype |-> contentTypeBinary,
              key |-> ArtifactKey(mp.s, ver.s, sZip)]
        ELSE [op |-> "reply", status |-> StatusBadRequest,
              ctype |-> contentTypeError, msg |-> "request not recognized"]

\* the two segments ServeHTTP cuts the request path into, r.URL.Path[:i]
\* without its leading slash and what, once it has got that far
Segments(path) ==
    LET i == SplitAt(path) IN
    IF SumdbDisabled(path) \/ i < 0
    THEN [pkg |-> <<>>, what |-> <<>>]
    ELSE [pkg  |-> TrimPrefix(Slice(path, 0, i), sSlash),
          what |-> Slice(path, i + Len(sSepV), Len(path))]

\* ProxyHandler.ServeHTTP on the request path once it has decided d, with
\* the outcome of the GetObject (got) and of the copy to the client (copy)
\* when it gets there
ProxyServeHTTP(path, d, got, copy) ==
    IF d.op = "reply" THEN Reply(path, d.status, d.ctype, d.msg)
    ELSE IF d.op = "error"
    THEN handleError(path, [kind |-> "other", code |-> d.msg], <<>>)
    ELSE Serve(path, d.ctype, d.key, got, copy)

\* ------------------------------------------------------------------------
\* The resolver: `go mod download` and the module cache it fills
\* ------------------------------------------------------------------------

v100 == <<"v","1",".","0",".","0">>

\* the modules upstream can resolve: one whose path has an upper-case letter
\* and none to require, one in lower case that requires the first
ModC == [Path |-> <<"a",".","b","/","C">>, Version |-> v100]
ModE == [Path |-> <<"d",".","e">>, Version |-> v100]
Upstream == {ModC, ModE}

\* the build list of a module (itself and all it requires), in the order of
\* the escaped paths, which is the order filepath.Walk visits them in
BuildList(m) == IF m = ModE THEN <<ModC, ModE>> ELSE <<m>>

sLock == <<".","l","o","c","k">>

\* what the go command leaves under cache/download for one module: the
\* directory <escaped path>/@v and in it, in lexical order, the version
\* list, and per version the .info, .lock, .mod, .zip and .ziphash files
ModuleEntries(m) ==
    LET dir  == sSlash \o EscapePath(m.Path).s \o <<"/","@","v">>
        ver  == EscapeVersion(m.Version).s
        file(name) == [rel |-> dir \o sSlash \o name, name |-> name, isDir |-> FALSE]
    IN  << [rel |-> dir, name |-> <<"@","v">>, isDir |-> TRUE],
           file(sList),
           file(ver \o sInfo),
           file(ver \o sLock),
           file(ver \o sMod),
           file(ver \o sZip),
           file(ver \o sZipHash) >>

RECURSIVE Flatten(_)
Flatten(ss) == IF ss = <<>> THEN <<>> ELSE Head(ss) \o Flatten(Tail(ss))

\* the entries filepath.Walk visits under cache/download, the root first
CacheEntries(m) ==
    <<[rel |-> <<>>, name |-> <<"d","o","w","n","l","o","a","d">>, isDir |-> TRUE]>>
        \o Flatten([k \in 1..Len(BuildList(m)) |-> ModuleEntries(BuildList(m)[k])])

\* the bytes of a file of the module cache
FileBytes(rel) == <<"bytes of">> \o rel

\* ------------------------------------------------------------------------
\* The control path: S3Copier
\* ------------------------------------------------------------------------

NumWorkers == 2
Workers == 1..NumWorkers

NoMod == [Path |-> <<>>, Version |-> <<>>]

Idle == [pc |-> "idle", method |-> "", url |-> <<>>, f |-> "",
         force |-> FALSE, mod |-> NoMod, walk |-> <<>>, key |-> <<>>,
         puts |-> <<>>, heads |-> <<>>, invoked |-> <<>>, err |-> "",
         status |-> 0, body |-> "", cache |-> FALSE, scratch |-> FALSE,
         solo |-> TRUE, prior |-> FALSE, startEmpty |-> FALSE]

InFlight(w) == cp[w].pc \in {"download", "downloadAll", "walk", "put"}

\* mutant: the path is split at the last @
parseURLPathForModule_Last(urlPath) ==
    LET u == TrimPrefix(urlPath, sSlash)
        i == LastIndex(u, sAt)
    IN  IF i < 0 THEN [ok |-> FALSE, path |-> <<>>, version |-> <<>>]
        ELSE [ok |-> TRUE, path |-> Slice(u, 0, i),
              version |-> Slice(u, i + 1, Len(u))]

\* mutant: a path without @ is taken as a module path with no version
parseURLPathForModule_NoCheck(urlPath) ==
    LET u == TrimPrefix(urlPath, sSlash)
        i == Index(u, sAt)
    IN  IF i < 0 THEN [ok |-> TRUE, path |-> u, version |-> <<>>]
        ELSE [ok |-> TRUE, path |-> Slice(u, 0, i),
              version |-> Slice(u, i + 1, Len(u))]

\* parseURLPathForModule
parseURLPathForModule(urlPath) ==
    LET u == TrimPrefix(urlPath, sSlash)
        i == Index(u, sAt)
    IN  IF i < 0 THEN [ok |-> FALSE, path |-> <<>>, version |-> <<>>]
        ELSE [ok |-> TRUE, path |-> Slice(u, 0, i),
              version |-> Slice(u, i + 1, Len(u))]

\* mutant: a directory is classified by its name like a file
shouldUpload_DirToo(fi) ==
    IF fi.name = sList THEN TRUE
    ELSE IF Ext(fi.name) \in {sMod, sZip, sZipHash, sInfo} THEN TRUE
    ELSE IF Contains(fi.name, sSumdb) THEN TRUE
    ELSE FALSE

\* mutant: the version list is not uploaded
shouldUpload_NoList(fi) ==
    IF fi.isDir THEN FALSE
    ELSE IF Ext(fi.name) \in {sMod, sZip, sZipHash, sInfo} THEN TRUE
    ELSE IF Contains(fi.name, sSumdb) THEN TRUE
    ELSE FALSE

\* shouldUpload
shouldUpload(fi) ==
    IF fi.isDir THEN FALSE
    ELSE IF fi.name = sList THEN TRUE
    ELSE IF Ext(fi.name) \in {sMod, sZip, sZipHash, sInfo} THEN TRUE
    ELSE IF Contains(fi.name, sSumdb) THEN TRUE
    ELSE FALSE

\* the temporary cache root of a call, and its download directory
DigitSeq == <<"0","1","2","3","4","5","6","7","8","9">>
CacheRoot(w) == <<"/","t","m","p","/","g", DigitSeq[w + 1]>>
AssetsDir(w) == CacheRoot(w) \o <<"/","c","a","c","h","e","/","d","o","w","n","l","o","a","d">>

\* strings.Replace(s, old, new, 1)
Replace1(s, old, new) ==
    LET i == Index(s, old)
    IN  IF i < 0 THEN s
        ELSE Slice(s, 0, i) \o new \o Slice(s, i + Len(old), Len(s))

\* the key an entry of the walk is uploaded under (Copy's o, upload's key)
UploadKey(w, e) ==
    sModules \o Replace1(AssetsDir(w) \o e.rel, AssetsDir(w), <<>>)

\* the entries of the walk from the next one Copy's callback uploads
RECURSIVE NextUpload(_)
NextUpload(walk) ==
    IF walk = <<>> THEN <<>>
    ELSE IF shouldUpload(Head(walk)) THEN walk
    ELSE NextUpload(Tail(walk))

\* mutant: force is ignored
HeadFirst_Always(force) == TRUE

\* upload: with force the put is issued at once, without force a HeadObject
\* comes first
HeadFirst(force) == ~force

\* mutant: a head check that fails is taken as "exists"
AfterHead_IgnoreError(out) ==
    IF out = errCodeNotFound THEN "put" ELSE "skip"

\* mutant: an object that is missing is not uploaded
AfterHead_SkipMissing(out) ==
    IF out = errCodeNotFound \/ out = "ok" THEN "skip" ELSE "fail"

\* mutant: an object that exists is uploaded again
AfterHead_PutExisting(out) ==
    IF out = errCodeNotFound \/ out = "ok" THEN "put" ELSE "fail"

\* upload, after the HeadObject: NotFound uploads, no error returns nil,
\* any other error is returned
AfterHead(out) ==
    IF out = errCodeNotFound THEN "put"
    ELSE IF out = "ok" THEN "skip"
    ELSE "fail"

\* mutant: a failed store request is passed over and the walk goes on
ReturnErr_SkipFailed(c, err, deferred) ==
    IF c.walk # <<>>
    THEN [c EXCEPT !.pc = "walk", !.walk = Tail(@), !.key = <<>>]
    ELSE [c EXCEPT !.pc = "done", !.err = err, !.status = StatusInternalServerError,
                   !.body = err, !.walk = <<>>, !.key = <<>>,
                   !.cache = IF deferred THEN FALSE ELSE c.cache]

\* Copy returns err and ServeHTTP answers 500 with its text; the deferred
\* RemoveAll of the cache root runs when Copy had registered it
ReturnErr(c, err, deferred) ==
    [c EXCEPT !.pc = "done", !.err = err, !.status = StatusInternalServerError,
              !.body = err, !.walk = <<>>, !.key = <<>>,
              !.cache = IF deferred THEN FALSE ELSE c.cache]

\* Copy returns nil and ServeHTTP answers 200 "ok"
ReturnOk(c) ==
    [c EXCEPT !.pc = "done", !.status = StatusOK, !.body = "ok\n",
              !.walk = <<>>, !.key = <<>>, !.cache = FALSE]

\* mutant: any value of the parameter f forces
forceParam_AnyValue(f) == f # ""

\* ServeHTTP: force is set when the query parameter f is "true"
forceParam(f) == f = "true"

\* S3Copier.ServeHTTP up to the call of Copy
AdminServe(w, method, url, f) ==
    /\ cp[w].pc = "idle"
    /\ LET parsed == parseURLPathForModule(url)
           req == [Idle EXCEPT !.method = method, !.url = url, !.f = f]
       IN  cp' = IF method # "POST"
                 THEN [cp EXCEPT ![w] = [req EXCEPT !.pc = "done",
                                           !.status = StatusMethodNotAllowed]]
                 ELSE IF ~parsed.ok
                 THEN [cp EXCEPT ![w] = [req EXCEPT !.pc = "done",
                                           !.status = StatusBadRequest,
                                           !.body = "malformed module path or version"]]
                 ELSE [v \in Workers |->
                         IF v = w
                         THEN [req EXCEPT
                                 !.pc = "download",
                                 !.force = forceParam(f),
                                 !.mod = [Path |-> parsed.path, Version |-> parsed.version],
                                 !.solo = \A u \in Workers \ {w} : ~InFlight(u),
                                 !.prior = ([Path |-> parsed.path,
                                             Version |-> parsed.version] \in populated),
                                 !.startEmpty = (DOMAIN store = {})]
                         ELSE IF InFlight(v) THEN [cp[v] EXCEPT !.solo = FALSE]
                         ELSE cp[v]]
    /\ UNCHANGED <<store, resp, populated, probe>>

\* goModDownload: a fresh cache root, then `go mod download -json m`
GoModDownload(w) ==
    /\ cp[w].pc = "download"
    /\ \E out \in (IF cp[w].mod \in Upstream THEN {"ok"} ELSE {}) \cup {"exit", "json"} :
         LET c == [cp[w] EXCEPT !.cache = TRUE, !.invoked = <<"single">>]
         IN  cp' = [cp EXCEPT ![w] =
                      IF out = "ok" THEN [c EXCEPT !.pc = "downloadAll"]
                      ELSE ReturnErr(c, out, FALSE)]
    /\ UNCHANGED <<store, resp, populated, probe>>

\* mutant: the scratch directory is removed at the end of the success path
\* only
ScratchLeft_NoDefer(out) == out # "ok"

\* goModDownloadAll: whether the scratch directory it made is still there
\* when it has returned with out; the deferred RemoveAll runs on every
\* return that follows the TempDir
ScratchLeft(out) == FALSE

\* goModDownloadAll: a scratch directory, the go.mod read and written into
\* it, then `go mod download -json all`; the scratch directory is removed
\* on return
GoModDownloadAll(w) ==
    /\ cp[w].pc = "downloadAll"
    /\ \E out \in {"ok", "read", "write", "exit"} :
         LET c == [cp[w] EXCEPT
                     !.invoked = IF out \in {"read", "write"} THEN @ ELSE Append(@, "all"),
                     !.scratch = ScratchLeft(out)]
         IN  cp' = [cp EXCEPT ![w] =
                      IF out = "ok"
                      THEN [c EXCEPT !.pc = "walk", !.walk = CacheEntries(c.mod)]
                      ELSE ReturnErr(c, out, TRUE)]
    /\ UNCHANGED <<store, resp, populated, probe>>

\* mutant: without force the put is refused when the key is there by now
Upload_IfAbsent(w, c, key, rel, out) ==
    IF out = "ok" /\ (c.force \/ key \notin DOMAIN store)
    THEN /\ store' = (key :> FileBytes(rel)) @@ store
         /\ cp' = [cp EXCEPT ![w] = [c EXCEPT !.pc = "walk", !.key = <<>>,
                                        !.puts = Append(@, [key |-> key, out |-> out]),
                                        !.walk = Tail(@)]]
    ELSE LET e == IF out = "ok" THEN "PreconditionFailed" ELSE out IN
         /\ store' = store
         /\ cp' = [cp EXCEPT ![w] = ReturnErr([c EXCEPT !.puts = Append(@, [key |-> key, out |-> e])],
                                              e, TRUE)]

\* mutant: a put that fails removes what the key held
Upload_RemoveOnFail(w, c, key, rel, out) ==
    IF out = "ok"
    THEN /\ store' = (key :> FileBytes(rel)) @@ store
         /\ cp' = [cp EXCEPT ![w] = [c EXCEPT !.pc = "walk", !.key = <<>>,
                                        !.puts = Append(@, [key |-> key, out |-> out]),
                                        !.walk = Tail(@)]]
    ELSE /\ store' = [k \in DOMAIN store \ {key} |-> store[k]]
         /\ cp' = [cp EXCEPT ![w] = ReturnErr([c EXCEPT !.puts = Append(@, [key |-> key, out |-> out])],
                                              out, TRUE)]

\* the put of upload
Upload(w, c, key, rel, out) ==
    IF out = "ok"
    THEN /\ store' = (key :> FileBytes(rel)) @@ store
         /\ cp' = [cp EXCEPT ![w] = [c EXCEPT !.pc = "walk", !.key = <<>>,
                                        !.puts = Append(@, [key |-> key, out |-> out]),
                                        !.walk = Tail(@)]]
    ELSE /\ store' = store
         /\ cp' = [cp EXCEPT ![w] = ReturnErr([c EXCEPT !.puts = Append(@, [key |-> key, out |-> out])],
                                              out, TRUE)]

\* Copy's walk up to and including the next store request: the callback
\* returns nil for the entries shouldUpload rejects, and calls upload for
\* the next one, which puts at once (force) or heads first
Walk(w) ==
    /\ cp[w].pc = "walk"
    /\ LET rest == NextUpload(cp[w].walk)
           c    == [cp[w] EXCEPT !.walk = rest]
       IN  IF rest = <<>>
           THEN /\ cp' = [cp EXCEPT ![w] = ReturnOk(c)]
                /\ populated' = IF c.force THEN populated
                                 ELSE populated \cup {c.mod}
                /\ store' = store
           ELSE LET key == UploadKey(w, Head(rest)) IN
                /\ populated' = populated
                /\ IF ~HeadFirst(c.force)
                   THEN \E out \in UploadOutcomes :
                            Upload(w, c, key, Head(rest).rel, out)
                   ELSE /\ store' = store
                        /\ \E out \in HeadObjectOutcomes(key) :
                             LET h == [c EXCEPT !.heads = Append(@, [key |-> key, out |-> out])]
                                 next == AfterHead(out)
                             IN  cp' = [cp EXCEPT ![w] =
                                          IF next = "put"
                                          THEN [h EXCEPT !.pc = "put", !.key = key]
                                          ELSE IF next = "skip"
                                          THEN [h EXCEPT !.walk = Tail(@)]
                                          ELSE ReturnErr(h, out, TRUE)]
    /\ UNCHANGED <<resp, probe>>

\* upload's put after a HeadObject that found nothing
Put(w) ==
    /\ cp[w].pc = "put"
    /\ \E out \in UploadOutcomes :
         Upload(w, cp[w], cp[w].key, Head(cp[w].walk).rel, out)
    /\ UNCHANGED <<resp, populated, probe>>

\* the response of ServeHTTP has been sent and the handler has returned
Finish(w) ==
    /\ cp[w].pc = "done"
    /\ cp' = [cp EXCEPT ![w] = Idle]
    /\ UNCHANGED <<store, resp, populated, probe>>

\* ------------------------------------------------------------------------
\* Requests and the specification
\* ------------------------------------------------------------------------

pE    == <<"d",".","e">>
pCesc == <<"a",".","b","/","!","c">>
pC    == <<"a",".","b","/","C">>
v1    == <<"v","1">>
\* a version that is no semantic version at all (a branch name)
vBranch == <<"m">>

ReadPath(pkg, what) == sSlash \o pkg \o sSepV \o what

\* the GET requests of the read path
GetPaths ==
    {ReadPath(p, w) : p \in {pE, pCesc},
                      w \in {sList, v100 \o sInfo, v100 \o sMod, v100 \o sZip}}
    \cup {ReadPath(pE, w) : w \in {sLatest, sLatest \o sInfo, sLatest \o sZip,
                                    sLatest \o <<".","x">>,
                                    v1 \o sInfo, v1 \o sMod, v1 \o sZip,
                                    vBranch \o sInfo, vBranch \o sMod,
                                    <<"V","1">> \o sInfo,
                                    v100 \o sZipHash, v100,
                                    <<"x">> \o sSepV \o sList}}
    \cup {ReadPath(pC, v100 \o sZip),
          sSlash \o pE,
          sSlash \o pE \o sSlash \o sSumdbSl \o <<"x">>,
          sSlash \o sSumdbSl \o <<"x">>,
          ReadPath(pE, sSumdbSl \o v100 \o sZip),
          ReadPath(pCesc, v1 \o sInfo)}

\* the requests of the admin endpoint
AdminMethods == {"POST", "GET"}
AdminURLs ==
    {sSlash \o pC \o sAt \o v100,
     sSlash \o pE \o sAt \o v100,
     sSlash \o <<"x",".","y">> \o sAt \o v100,
     sSlash \o pE,
     sSlash \o pE \o sAt \o v100 \o sAt \o <<"x">>}
AdminForce == {"", "true", "1"}

\* what ServeHTTP decides for each of the requests, before the store
DispatchTable == [path \in GetPaths |-> Dispatch(path)]
SegmentTable  == [path \in GetPaths |-> Segments(path)]

\* ProxyHandler.ServeHTTP as one step: it reads the bucket once at most.
\* One read request is observed at a time.
Get(path) ==
    /\ resp = NoResp
    /\ IF DispatchTable[path].op = "get"
       THEN \E got \in GetObjectOutcomes(DispatchTable[path].key),
               copy \in {"ok", "writeErr"} :
                resp' = [ProxyServeHTTP(path, DispatchTable[path], got, copy)
                           EXCEPT !.pkg = SegmentTable[path].pkg,
                                  !.what = SegmentTable[path].what]
       ELSE resp' = [ProxyServeHTTP(path, DispatchTable[path], "ok", "ok")
                       EXCEPT !.pkg = SegmentTable[path].pkg,
                              !.what = SegmentTable[path].what]
    /\ UNCHANGED <<store, cp, populated, probe>>

\* ServeHTTP has returned
GetReturn ==
    /\ resp # NoResp
    /\ resp' = NoResp
    /\ UNCHANGED <<store, cp, populated, probe>>

\* no entry is held apart from the walks
NoProbe == [fi |-> [name |-> <<>>, isDir |-> FALSE], asked |-> FALSE,
            upload |-> FALSE]

Init ==
    /\ store = <<>>
    /\ resp = NoResp
    /\ cp = [w \in Workers |-> Idle]
    /\ populated = {}
    /\ probe = NoProbe

\* no request is being served
Quiet == resp = NoResp /\ \A w \in Workers : cp[w].pc = "idle"

\* The requests of both endpoints served one after the other, in any order,
\* an admin request by any of the workers. A read request reads the bucket
\* once and nothing of the admin requests, and a population can stop after
\* any of its puts, so the read path meets every content of the bucket that
\* a population passes through.
Next ==
    \/ \E path \in GetPaths : Quiet /\ Get(path)
    \/ GetReturn
    \/ \E w \in Workers, method \in AdminMethods, url \in AdminURLs, f \in AdminForce :
           Quiet /\ AdminServe(w, method, url, f)
    \/ \E w \in Workers : GoModDownload(w)
    \/ \E w \in Workers : GoModDownloadAll(w)
    \/ \E w \in Workers : Walk(w)
    \/ \E w \in Workers : Put(w)
    \/ \E w \in Workers : Finish(w)

Spec == Init /\ [][Next]_vars

\* ------------------------------------------------------------------------
\* shouldUpload on its own
\* ------------------------------------------------------------------------

\* names of directory entries: a stem followed by nothing or by a suffix
EntryStems ==
    {<<>>, sList, sList \o <<"s">>, v100, <<"t","m","p","f","i","l","e">>,
     sSumdb, <<"x">> \o sSumdb \o <<"y">>, <<"@","v">>}
EntrySuffixes ==
    {<<>>, sMod, sZip, sZipHash, sInfo, sLock, sMod \o sLock,
     <<".","M","O","D">>}
EntryNames == {st \o su : st \in EntryStems, su \in EntrySuffixes} \ {<<>>}

\* the os.FileInfo values the walk can hand to shouldUpload
Entries == {[name |-> n, isDir |-> d] : n \in EntryNames, d \in BOOLEAN}

InitClassify ==
    /\ store = <<>>
    /\ resp = NoResp
    /\ cp = [w \in Workers |-> Idle]
    /\ populated = {}
    /\ probe \in {[fi |-> fi, asked |-> FALSE, upload |-> FALSE] : fi \in Entries}

\* Copy's callback asks shouldUpload about the entry
Classify ==
    /\ ~probe.asked
    /\ probe' = [probe EXCEPT !.asked = TRUE, !.upload = shouldUpload(probe.fi)]
    /\ UNCHANGED <<store, resp, cp, populated>>

NextClassify == Classify

SpecClassify == InitClassify /\ [][NextClassify]_vars

\* ------------------------------------------------------------------------
\* Populations side by side
\* ------------------------------------------------------------------------

\* the admin requests that run side by side: non-forced POSTs of one module
ConcURLs == {sSlash \o pC \o sAt \o v100}

\* the two requests of the race
Racers == {1, 2}

\* net/http serves each admin request on a goroutine of its own: two
\* requests take one POST each, and the steps of their Copy calls interleave
NextConc ==
    \/ \E w \in Racers, url \in ConcURLs : AdminServe(w, "POST", url, "")
    \/ \E w \in Racers : GoModDownload(w)
    \/ \E w \in Racers : GoModDownloadAll(w)
    \/ \E w \in Racers : Walk(w)
    \/ \E w \in Racers : Put(w)

SpecConc == Init /\ [][NextConc]_vars

\* ------------------------------------------------------------------------
\* Reads and populations side by side
\* ------------------------------------------------------------------------

\* the read request made while populations run: an artifact they upload
MixedPaths == {ReadPath(pE, v100 \o sInfo)}

\* the populations: one without force of the module with a requirement,
\* one with force of the module it requires, so that keys are put twice
MixedPosts ==
    {[w |-> 1, url |-> sSlash \o pE \o sAt \o v100, f |-> ""],
     [w |-> 2, url |-> sSlash \o pC \o sAt \o v100, f |-> "true"]}

\* the two servers of main run side by side: reads of the proxy interleave
\* with the steps of the Copy calls of the admin server
NextMixed ==
    \/ \E path \in MixedPaths : Get(path)
    \/ GetReturn
    \/ \E r \in MixedPosts : AdminServe(r.w, "POST", r.url, r.f)
    \/ \E w \in Racers : GoModDownload(w)
    \/ \E w \in Racers : GoModDownloadAll(w)
    \/ \E w \in Racers : Walk(w)
    \/ \E w \in Racers : Put(w)

SpecMixed == Init /\ [][NextMixed]_vars

\* ------------------------------------------------------------------------
\* Properties
\* ------------------------------------------------------------------------

\* the key the bucket layout gives an artifact of module m
LayoutKey(m, name) ==
    sModules \o sSlash \o escapeString(m.Path) \o sSepV \o name

\* the artifacts of one module that are to be persisted
ArtifactNames(m) ==
    LET ver == escapeString(m.Version)
    IN  {sList, ver \o sInfo, ver \o sMod, ver \o sZip, ver \o sZipHash}

\* the keys of the classified artifacts a population of m finds
ExpectedKeys(m) ==
    UNION {{LayoutKey(BuildList(m)[k], n) : n \in ArtifactNames(BuildList(m)[k])}
              : k \in 1..Len(BuildList(m))}

KeysOf(log) == {log[i].key : i \in 1..Len(log)}
AllOk(log)  == \A i \in 1..Len(log) : log[i].out = "ok"

\* each key of ks requested exactly once in log
OncePerKey(log, ks) == KeysOf(log) = ks /\ Len(log) = Cardinality(ks)

ResolverErrors == {"exit", "json", "read", "write"}

\* C1: a non-forced Copy of a coordinate that a non-forced Copy has
\* populated successfully before issues no put: no head check reports
\* not-found, and when the resolver succeeds and every head check reports
\* that the key exists, every classified artifact is checked and skipped and
\* the Copy returns success (200).
C1_Idempotent ==
    \A w \in Workers :
        LET c == cp[w] IN
        (c.prior /\ ~c.force) =>
            /\ c.puts = <<>>
            /\ c.pc # "put"
            /\ \A i \in 1..Len(c.heads) : c.heads[i].out # errCodeNotFound
            /\ (c.pc = "done" /\ c.err \notin ResolverErrors /\ AllOk(c.heads)) =>
                   /\ c.err = ""
                   /\ c.status = StatusOK
                   /\ OncePerKey(c.heads, ExpectedKeys(c.mod))

\* C1 witness: a second non-forced Copy has returned success after checking
\* its classified artifacts, without a put
C1_Witness ==
    \E w \in Workers :
        /\ cp[w].prior /\ ~cp[w].force /\ cp[w].pc = "done"
        /\ cp[w].status = StatusOK
        /\ Len(cp[w].heads) = Cardinality(ExpectedKeys(ModE))
        /\ cp[w].puts = <<>>

\* C2: a forced Copy issues no head check, and when it has run to
\* completion it has issued exactly one put for every classified artifact,
\* also when all the keys existed before.
C2_ForceOverride ==
    \A w \in Workers :
        LET c == cp[w] IN
        c.force =>
            /\ c.heads = <<>>
            /\ (c.pc = "done" /\ c.err = "") =>
                   /\ OncePerKey(c.puts, ExpectedKeys(c.mod))
                   /\ AllOk(c.puts)

\* C2 witness: a forced Copy of a populated coordinate has completed and put
\* every artifact again
C2_Witness ==
    \E w \in Workers :
        /\ cp[w].force /\ cp[w].prior /\ cp[w].pc = "done" /\ cp[w].err = ""
        /\ Len(cp[w].puts) = Cardinality(ExpectedKeys(ModE))

\* Copy was called on an empty bucket without force and has returned nil
EmptyStartSuccess(c) ==
    /\ ~c.force /\ c.startEmpty /\ c.solo
    /\ c.pc = "done" /\ c.invoked # <<>> /\ c.err = ""

\* C3: when a non-forced Copy starts on an empty bucket and returns
\* success, it has resolved once, issued exactly one put per classified
\* artifact under cache/download, the bucket holds the key of each, and the
\* admin response is 200 with the line "ok".
C3_PopulationComplete ==
    \A w \in Workers :
        LET c == cp[w] IN
        EmptyStartSuccess(c) =>
            /\ c.invoked = <<"single", "all">>
            /\ OncePerKey(c.puts, ExpectedKeys(c.mod))
            /\ AllOk(c.puts)
            /\ ExpectedKeys(c.mod) \subseteq DOMAIN store
            /\ c.status = StatusOK
            /\ c.body = "ok\n"

\* C3 witness: such a Copy of the module with a requirement has returned
C3_Witness ==
    \E w \in Workers :
        /\ EmptyStartSuccess(cp[w])
        /\ cp[w].mod = ModE
        /\ Cardinality(DOMAIN store) = 2 * Cardinality(ArtifactNames(ModE))

ReadExts == {sInfo, sMod, sZip}

\* C4 (as claimed): the key a GET of <escaped p>/@v/<escaped v><ext> fetches
\* is modules/<escaped p>/@v/<escaped v><ext>, the key a population stores
\* the artifact under, so that the GET finds what a successful Copy uploaded.
C4_KeyAgreement ==
    \A m \in Upstream, ext \in ReadExts :
        LET name == escapeString(m.Version) \o ext IN
        resp.path = ReadPath(escapeString(m.Path), name) =>
            /\ resp.gets = <<LayoutKey(m, name)>>
            /\ (m \in populated /\ ~resp.fault) => resp.status = StatusOK

\* C5 (as claimed): a GET of <pkg>/@v/list fetches modules/<escaped
\* pkg>/@v/list, the key a population stores the file `list` under, and
\* streams it as plain text.
C5_ListKey ==
    \A m \in Upstream :
        resp.path = ReadPath(escapeString(m.Path), sList) =>
            /\ resp.gets = <<LayoutKey(m, sList)>>
            /\ (LayoutKey(m, sList) \in DOMAIN store /\ ~resp.fault) =>
                   /\ resp.status = StatusOK
                   /\ resp.ctype = contentTypeText
                   /\ resp.body = store[LayoutKey(m, sList)]

ContentTypeOf(ext) ==
    IF ext = sInfo THEN contentTypeJSON
    ELSE IF ext = sMod THEN contentTypeText
    ELSE contentTypeBinary

\* C6 (as claimed): when the key modules/p/@v/v<ext> is in the bucket, a GET
\* of /p/@v/v<ext> answers 200 with the stored bytes and the content type
\* of the extension, with exactly one get.
C6_ServedFromStore ==
    \A p \in {pE, pCesc}, ext \in ReadExts :
        LET key == sModules \o sSlash \o p \o sSepV \o v100 \o ext IN
        (resp.path = ReadPath(p, v100 \o ext) /\ key \in DOMAIN store /\ ~resp.fault) =>
            /\ resp.status = StatusOK
            /\ resp.body = store[key]
            /\ resp.ctype = ContentTypeOf(ext)
            /\ resp.gets = <<key>>

\* C7 (as claimed): a well-formed read request whose key is not in the
\* bucket is answered 404, and a failure of the store itself 500.
C7_AbsentIs404 ==
    /\ (resp.gets # <<>> /\ resp.gets[1] \notin DOMAIN store /\ ~resp.fault) =>
           resp.status = StatusNotFound
    /\ (resp.gets # <<>> /\ resp.fault /\ ~resp.opened) =>
           resp.status = StatusInternalServerError

\* the rest of a request path after the separator is `latest`, bare or
\* followed by one extension
IsLatestRequest(path) ==
    LET i    == Index(path, sSepV)
        what == Slice(path, i + Len(sSepV), Len(path))
    IN  /\ i >= 0
        /\ \/ what = sLatest
           \/ Ext(what) # <<>> /\ TrimSuffix(what, Ext(what)) = sLatest

LatestPaths == {path \in GetPaths : IsLatestRequest(path)}

\* C8: a GET whose rest after /@v/ is `latest`, or `latest` with an
\* extension, ends in an error response and issues no get, whatever the
\* bucket holds.
C8_LatestNeverReachesStore ==
    resp.path \in LatestPaths =>
        /\ resp.status >= StatusBadRequest
        /\ resp.gets = <<>>
        /\ ~resp.opened

\* C8 witness: latest.info was asked for while the bucket held objects
C8_Witness ==
    /\ resp.path = ReadPath(pE, sLatest \o sInfo)
    /\ resp.status = StatusBadRequest
    /\ DOMAIN store # {}

\* the malformed requests: a package path that cannot be unescaped, no
\* separator, a version that cannot be unescaped, a version not canonical
\* on .mod and .zip, an unknown extension, the bare latest
MalformedPaths ==
    {ReadPath(pC, v100 \o sZip),
     sSlash \o pE,
     ReadPath(pE, <<"V","1">> \o sInfo),
     ReadPath(pE, v1 \o sMod),
     ReadPath(pE, v1 \o sZip),
     ReadPath(pE, v100 \o sZipHash),
     ReadPath(pE, v100),
     ReadPath(pE, sLatest)}

\* C9 (as claimed): every malformed read request is answered 400.
C9_MalformedIs400 ==
    resp.path \in MalformedPaths => resp.status = StatusBadRequest

SumdbPaths == {path \in GetPaths : Contains(path, sSumdbSl)}

\* C10: a GET whose path contains sumdb/ is answered 404 without a get,
\* whatever the bucket holds and whatever the rest of the path is.
C10_SumdbIs404 ==
    resp.path \in SumdbPaths =>
        /\ resp.status = StatusNotFound
        /\ resp.gets = <<>>
        /\ ~resp.opened

\* C10 witness: /sumdb/x, a path without separator, was asked for while the
\* bucket held objects
C10_Witness ==
    /\ resp.path = sSlash \o sSumdbSl \o <<"x">>
    /\ resp.status = StatusNotFound
    /\ DOMAIN store # {}

\* the versions asked for that are not in canonical form (and not latest)
NonCanonicalVersions ==
    {v \in {v1, vBranch, v100} : CanonicalVersion(v) # v /\ v # sLatest}

\* C11: for a version that is not in canonical form, a GET of its .mod and
\* of its .zip is answered 400 without a get, and a GET of its .info is
\* accepted: it issues one get, for a key that ends in the version as it was
\* asked for, followed by .info.
C11_CanonicalGate ==
    \A p \in {pE, pCesc}, v \in NonCanonicalVersions :
        /\ resp.path \in {ReadPath(p, v \o sMod), ReadPath(p, v \o sZip)} =>
               /\ resp.status = StatusBadRequest
               /\ resp.gets = <<>>
        /\ resp.path = ReadPath(p, v \o sInfo) =>
               /\ resp.status # StatusBadRequest
               /\ Len(resp.gets) = 1
               /\ HasSuffix(resp.gets[1], sSepV \o v \o sInfo)

\* C11 witness: v1.info was asked for and forwarded as v1.info while the
\* bucket held objects
C11_Witness ==
    /\ resp.path = ReadPath(pE, v1 \o sInfo)
    /\ resp.gets = <<DownloadKey(pE, v1 \o sInfo)>>
    /\ v1 \in NonCanonicalVersions
    /\ DOMAIN store # {}

\* the request of worker w has called the resolver or the store, or is
\* about to
Populating(c) ==
    \/ c.pc \in {"download", "downloadAll", "walk", "put"}
    \/ c.invoked # <<>> \/ c.heads # <<>> \/ c.puts # <<>> \/ c.cache

\* C12: an admin request calls the resolver or the store only when its
\* method is POST and its path contains @; every other method is answered
\* 405 and a POST path without @ is answered 400, both without a resolver
\* invocation and without a head or put.
C12_ControlGate ==
    \A w \in Workers :
        LET c == cp[w] IN
        /\ Populating(c) => c.method = "POST" /\ Contains(c.url, sAt)
        /\ (c.pc # "idle" /\ c.method # "POST") =>
               c.pc = "done" /\ c.status = StatusMethodNotAllowed /\ ~Populating(c)
        /\ (c.pc # "idle" /\ c.method = "POST" /\ ~Contains(c.url, sAt)) =>
               c.pc = "done" /\ c.status = StatusBadRequest /\ ~Populating(c)

\* C12 witness: a POST without @ was answered 400 while the bucket held
\* objects
C12_Witness ==
    \E w \in Workers :
        /\ cp[w].pc = "done" /\ cp[w].method = "POST"
        /\ cp[w].url = sSlash \o pE
        /\ cp[w].status = StatusBadRequest
        /\ DOMAIN store # {}

\* the admin request is a POST whose path parses
WellFormedPost(c) == c.pc # "idle" /\ c.method = "POST" /\ Contains(c.url, sAt)

\* C13: a well-formed POST is answered 200 with the line "ok" exactly when
\* Copy returned no error, and 500 with the text of the error when it
\* returned one; Copy is called with force exactly when f is "true".
C13_OutcomeMapping ==
    \A w \in Workers :
        LET c == cp[w] IN
        WellFormedPost(c) =>
            /\ c.force <=> (c.f = "true")
            /\ c.pc = "done" =>
                   /\ (c.status = StatusOK /\ c.body = "ok\n") <=> (c.err = "")
                   /\ c.err # "" =>
                          c.status = StatusInternalServerError /\ c.body = c.err

\* C13 witness: a POST with f=1 was not forced, and failed at a head check
\* with 500 and the text of the error
C13_Witness ==
    \E w \in Workers :
        /\ WellFormedPost(cp[w]) /\ cp[w].pc = "done"
        /\ cp[w].f = "1" /\ ~cp[w].force
        /\ cp[w].heads # <<>>
        /\ cp[w].err = "InternalError"
        /\ cp[w].status = StatusInternalServerError

\* C14 (amended): the path of a POST is split at its first @: the package
\* is what lies between the leading slash and the first @, so it holds no
\* @, and the version is all that follows the first @.
C14_SplitAtFirstAt ==
    \A w \in Workers :
        LET c == cp[w] IN
        WellFormedPost(c) =>
            /\ c.url = sSlash \o c.mod.Path \o sAt \o c.mod.Version
            /\ ~Contains(c.mod.Path, sAt)

\* C14 (as claimed): the path of a POST is split at its last @: the version
\* is what follows the last @, so it holds no @, and the package is all
\* that lies between the leading slash and the last @.
C14_SplitAtLastAt ==
    \A w \in Workers :
        LET c == cp[w] IN
        WellFormedPost(c) =>
            /\ c.url = sSlash \o c.mod.Path \o sAt \o c.mod.Version
            /\ ~Contains(c.mod.Version, sAt)

\* C14 witness: a POST of a path with two @ has been handed to Copy with
\* the second @ in the version
C14_Witness ==
    \E w \in Workers :
        /\ WellFormedPost(cp[w])
        /\ cp[w].url = sSlash \o pE \o sAt \o v100 \o sAt \o <<"x">>
        /\ cp[w].mod = [Path |-> pE, Version |-> v100 \o sAt \o <<"x">>]
        /\ cp[w].invoked # <<>>

\* the extensions of the files to persist
UploadExts == {sMod, sZip, sZipHash, sInfo}

\* C15: shouldUpload answers false for every directory, whatever its name,
\* and for a file it answers true exactly when the name is `list`, or ends
\* in one of .mod, .zip, .ziphash, .info, or contains `sumdb`.
C15_Classifier ==
    probe.asked =>
        (probe.upload <=>
            /\ ~probe.fi.isDir
            /\ \/ probe.fi.name = sList
               \/ \E e \in UploadExts : HasSuffix(probe.fi.name, e)
               \/ Contains(probe.fi.name, sSumdb))

\* C15 witness: shouldUpload was asked about a directory whose name
\* contains sumdb and ends in .zip, and answered false
C15_Witness ==
    /\ probe.asked /\ ~probe.upload
    /\ probe.fi = [name |-> sSumdb \o sZip, isDir |-> TRUE]

\* how many entries of a walk shouldUpload accepts
Classified(walk) == Cardinality({i \in 1..Len(walk) : shouldUpload(walk[i])})

\* the classified artifacts the walk of c has visited so far
Visited(c) == Classified(CacheEntries(c.mod)) - Classified(c.walk)

\* C16: for each classified artifact a Copy visits, a put is issued for its
\* key exactly when force is set or the head check on the key reports
\* not-found; without force, a key the head check finds is not put and the
\* walk goes on to the next artifact.
C16_UploadDecision ==
    \A w \in Workers :
        LET c == cp[w] IN
        \* each artifact visited has had its store request
        /\ c.pc = "walk" =>
               Visited(c) = IF c.force THEN Len(c.puts) ELSE Len(c.heads)
        \* a put only with force or after a head that reported not-found
        /\ \A i \in 1..Len(c.puts) :
               \/ c.force
               \/ \E j \in 1..Len(c.heads) :
                      /\ c.heads[j].key = c.puts[i].key
                      /\ c.heads[j].out = errCodeNotFound
        /\ c.pc = "put" =>
               /\ c.heads # <<>>
               /\ c.heads[Len(c.heads)] = [key |-> c.key, out |-> errCodeNotFound]
        \* a head that reported not-found is followed by the put
        /\ \A j \in 1..Len(c.heads) :
               c.heads[j].out = errCodeNotFound =>
                   \/ c.heads[j].key \in KeysOf(c.puts)
                   \/ c.pc = "put" /\ c.key = c.heads[j].key
        \* a head that found the key: no put, and the walk goes on
        /\ \A j \in 1..Len(c.heads) :
               c.heads[j].out = "ok" =>
                   /\ c.heads[j].key \notin KeysOf(c.puts)
                   /\ c.pc # "put" \/ c.key # c.heads[j].key
                   /\ \/ j < Len(c.heads)
                      \/ c.pc = "walk"
                      \/ c.pc = "done" /\ c.err = ""

\* C16 witness: one Copy without force has skipped a key that a head check
\* found and has put a later one that a head check did not find
C16_Witness ==
    \E w \in Workers :
        /\ ~cp[w].force
        /\ \E i, j \in 1..Len(cp[w].heads) :
               /\ i < j
               /\ cp[w].heads[i].out = "ok"
               /\ cp[w].heads[i].key \notin KeysOf(cp[w].puts)
               /\ cp[w].heads[j].out = errCodeNotFound
               /\ cp[w].heads[j].key \in KeysOf(cp[w].puts)

\* C17 (as claimed): whenever a Copy has returned, on success or with the
\* error of either resolver invocation or of an upload, the temporary cache
\* root allocated for the call no longer exists.
C17_CacheRemoved ==
    \A w \in Workers :
        (cp[w].pc = "done" /\ cp[w].invoked # <<>>) => ~cp[w].cache

\* a head check failed: an error other than not-found
HeadFailed(h) == h.out \notin {"ok", errCodeNotFound}

\* C18: when a resolver invocation fails, Copy returns the error without a
\* head or put; when a head or put fails, it is the last store request of
\* the call and Copy returns its error; every key put successfully in the
\* call is still in the bucket.
C18_StopAtFirstFailure ==
    \A w \in Workers :
        LET c == cp[w] IN
        /\ (c.pc = "done" /\ c.err \in ResolverErrors) =>
               c.heads = <<>> /\ c.puts = <<>>
        /\ \A j \in 1..Len(c.heads) :
               HeadFailed(c.heads[j]) =>
                   /\ j = Len(c.heads)
                   /\ c.pc = "done" /\ c.err = c.heads[j].out
                   /\ c.heads[j].key \notin KeysOf(c.puts)
                   /\ Len(c.puts) = Cardinality({k \in 1..Len(c.heads) :
                                                    c.heads[k].out = errCodeNotFound})
        /\ \A i \in 1..Len(c.puts) :
               c.puts[i].out # "ok" =>
                   /\ i = Len(c.puts)
                   /\ c.pc = "done" /\ c.err = c.puts[i].out
                   /\ c.force \/ c.heads[Len(c.heads)].key = c.puts[i].key
        /\ \A i \in 1..Len(c.puts) :
               c.puts[i].out = "ok" => c.puts[i].key \in DOMAIN store

\* C18 witness: a Copy has stopped at a failed put with artifacts left to
\* visit, and the key it put before is in the bucket
C18_Witness ==
    \E w \in Workers :
        LET c == cp[w] IN
        /\ c.pc = "done" /\ c.err = "InternalError"
        /\ Len(c.puts) = 2
        /\ c.puts[1].out = "ok" /\ c.puts[2].out = "InternalError"
        /\ c.puts[1].key \in DOMAIN store
        /\ c.puts[2].key \notin DOMAIN store
        /\ Cardinality(ExpectedKeys(c.mod)) > 2

\* the request r (a key and its outcome) is in the log
Logged(log, r) == \E i \in 1..Len(log) : log[i] = r

\* C19: when non-forced Copy calls of one module run side by side, no call
\* fails because of the other: a call returns success, or the error of the
\* resolver, or the store failure its last head or put met; and what the
\* bucket holds under a key is what one of the calls has put there.
C19_LastWriterWins ==
    /\ \A w \in Racers :
           LET c == cp[w] IN
           c.pc = "done" =>
               \/ c.err = "" /\ c.status = StatusOK
               \/ c.err \in ResolverErrors
               \/ /\ c.err = "InternalError"
                  /\ \/ c.heads # <<>> /\ c.heads[Len(c.heads)].out = "InternalError"
                     \/ c.puts # <<>> /\ c.puts[Len(c.puts)].out = "InternalError"
    /\ \A key \in DOMAIN store :
           /\ \E w \in Racers : Logged(cp[w].puts, [key |-> key, out |-> "ok"])
           /\ store[key] = FileBytes(TrimPrefix(key, sModules))

\* C19 witness: both calls got not-found from the head check of one key,
\* both have put it, and both have returned success
C19_Witness ==
    \E key \in DOMAIN store :
        \A w \in Racers :
            /\ ~cp[w].force /\ cp[w].pc = "done" /\ cp[w].status = StatusOK
            /\ Logged(cp[w].heads, [key |-> key, out |-> errCodeNotFound])
            /\ Logged(cp[w].puts, [key |-> key, out |-> "ok"])

\* how often the log holds a request for the key
Requests(log, key) == Cardinality({i \in 1..Len(log) : log[i].key = key})

\* the admin request ended in 500 with the text of err
Answered500(c, err) ==
    /\ c.pc = "done" /\ c.err = err
    /\ c.status = StatusInternalServerError /\ c.body = err

\* C20: when a head check of a non-forced Copy fails with an error other
\* than not-found, or a put fails, the request is not sent again, the key
\* is not passed over (nothing follows the failure), Copy returns that
\* error and the admin response is 500.
C20_StorageFailurePropagated ==
    \A w \in Workers :
        LET c == cp[w] IN
        /\ \A j \in 1..Len(c.heads) :
               HeadFailed(c.heads[j]) =>
                   /\ ~c.force
                   /\ Answered500(c, c.heads[j].out)
                   /\ Requests(c.heads, c.heads[j].key) = 1
                   /\ Requests(c.puts, c.heads[j].key) = 0
                   /\ j = Len(c.heads)
        /\ \A i \in 1..Len(c.puts) :
               c.puts[i].out # "ok" =>
                   /\ Answered500(c, c.puts[i].out)
                   /\ Requests(c.puts, c.puts[i].key) = 1
                   /\ i = Len(c.puts)

\* C20 witness: the third head check of a Copy without force failed, with
\* artifacts left to visit, and the admin response was 500
C20_Witness ==
    \E w \in Workers :
        LET c == cp[w] IN
        /\ ~c.force /\ Len(c.heads) = 3
        /\ c.heads[3].out = "InternalError"
        /\ Answered500(c, "InternalError")
        /\ Cardinality(ExpectedKeys(c.mod)) > 3

\* the keys whose content a step changes
ChangedKeys ==
    {key \in DOMAIN store' : key \notin DOMAIN store \/ store'[key] # store[key]}

\* one step keeps every key, changes nothing when it is a step of the read
\* path, and changes a key only by a put of a Copy to a key under modules/
StoreStep ==
    /\ DOMAIN store \subseteq DOMAIN store'
    /\ resp' # resp => store' = store
    /\ \A key \in ChangedKeys :
           /\ HasPrefix(key, sModules \o sSlash)
           /\ \E w \in Workers :
                  cp'[w].puts = Append(cp[w].puts, [key |-> key, out |-> "ok"])

\* C21: with reads and populations interleaved, no step removes a key from
\* the bucket, the steps of the read path leave the bucket as it is, and a
\* population changes it only by a put to a key that starts with modules/.
C21_StoreOnlyGrows == [][StoreStep]_vars

\* C21 witness: a read was answered from the bucket while the forced
\* population had put a key again that the other population had put
C21_Witness ==
    /\ resp.status = StatusOK /\ resp.gets # <<>>
    /\ cp[2].force /\ cp[2].pc = "walk"
    /\ \E i \in 1..Len(cp[1].puts), j \in 1..Len(cp[2].puts) :
           /\ cp[1].puts[i].key = cp[2].puts[j].key
           /\ cp[1].puts[i].out = "ok" /\ cp[2].puts[j].out = "ok"

\* C22 (as claimed): when the get of a read request returned a stream, the
\* stream has been read to its end and closed by the time the handler
\* returns, also when the write of the response body failed part-way; when
\* the get failed no stream is open.
C22_StreamReleased ==
    /\ resp.opened => resp.closed /\ resp.drained
    /\ (resp.gets # <<>> /\ resp.status # StatusOK) => ~resp.opened

\* the request was cut as package segment, separator, rest
CutAtSeparator == resp.path = sSlash \o resp.pkg \o sSepV \o resp.what

\* a path without separator is answered 400 "no path", without a get
NoPathAnswer ==
    /\ resp.status = StatusBadRequest
    /\ resp.body = <<"no path">>
    /\ resp.gets = <<>>

\* a request has been served, and not by the sumdb rule that comes first
PastSumdb == resp.path # <<>> /\ resp.path \notin SumdbPaths

\* C23 (amended): a GET path that holds the separator /@v/ (and no sumdb/)
\* is split at its first occurrence: the package segment is what lies
\* before it, so no separator starts in it, and the rest that is dispatched
\* on is all that follows it; a path without separator (and no sumdb/) is
\* answered 400 "no path".
C23_SplitAtFirstSep ==
    PastSumdb =>
        IF Contains(resp.path, sSepV)
        THEN /\ CutAtSeparator
             /\ ~Contains(sSlash \o resp.pkg \o <<"/","@","v">>, sSepV)
        ELSE NoPathAnswer

\* C23 (as claimed): a GET path that holds the separator /@v/ is split at
\* its last occurrence: the rest that is dispatched on is what follows it,
\* so it holds no separator, and the package segment is all that lies
\* before it; a path without separator is answered 400 "no path".
C23_SplitAtLastSep ==
    resp.path # <<>> =>
        IF Contains(resp.path, sSepV)
        THEN /\ CutAtSeparator
             /\ ~Contains(resp.what, sSepV)
        ELSE NoPathAnswer

\* C23 witness: a path with two separators was cut at the first, and the
\* rest, which holds the second, was refused as a version
C23_Witness ==
    /\ resp.path = ReadPath(pE, <<"x">> \o sSepV \o sList)
    /\ resp.pkg = pE
    /\ resp.what = <<"x">> \o sSepV \o sList
    /\ resp.status = StatusBadRequest
    /\ resp.gets = <<>>

====
